---- MODULE Spec2Model ----
(***************************************************************************)
(* Model of the smart-parking service of src/ee.py: the store (Car,        *)
(* Emission, ParkingSpace, Pricing, CarPricing tables), the pricing        *)
(* function calculate_price and the five request handlers.                 *)
(*                                                                         *)
(* Units.  Prices are integers in tenths of a currency unit (10.0 is 100). *)
(* Emission values are whole units, so the surcharge (co2 + nox) * 0.1 is  *)
(* (co2 + nox) tenths.  A location is a point of one meridian, given by    *)
(* its distance in whole kilometres from a reference point, so the         *)
(* geodesic distance of two locations is the absolute difference.  Python  *)
(* floats are modelled by this fixed-point arithmetic: rounding of binary  *)
(* floating point is outside the model.                                    *)
(*                                                                         *)
(* An optional value (Python None, an absent JSON key, an absent query     *)
(* parameter) is the empty sequence; a present value v is <<v>>.           *)
(***************************************************************************)
EXTENDS Integers, Sequences, FiniteSets

VARIABLES
    cars,          \* table car: id (the index) -> residence/current location
    emissions,     \* table emission: id -> co2, nox, car_id
    spaces,        \* table parking_space: id -> location, status
    pricings,      \* table pricing: id -> parking_space_id
    car_pricings,  \* table car_pricing: id -> car_id, pricing_id, price
    req,           \* the request handled last
    resp,          \* the response it was answered with
    repeated       \* history: the request handled last equals the one before it

vars == <<cars, emissions, spaces, pricings, car_pricings, req, resp, repeated>>

-----------------------------------------------------------------------------
(* Bounds of the model and the inputs requests are drawn from. *)

MaxSpaces == 2
MaxCars == 2
MaxKm == 3

\* The locations and emission values the pricing function is tried on.
Locations == 0..MaxKm
EmissionValues == {-90, 2, 3}

\* The locations of the parking spaces that requests create.
SpaceLocations == {1, 3}

None == << >>
Some(v) == <<v>>
Opt(S) == {None} \cup {Some(v) : v \in S}

Abs(n) == IF n < 0 THEN -n ELSE n

-----------------------------------------------------------------------------
(* Program constants of calculate_price. *)

base_price == 100
CarDiscount == 20
ResidenceDiscount == 20
CarRadiusKm == 2
ResidenceRadiusKm == 2
EmissionFactor == 1

-----------------------------------------------------------------------------
(* The store and the relationships of the data model. *)

DB == [cars |-> cars, emissions |-> emissions, spaces |-> spaces,
       pricings |-> pricings, car_pricings |-> car_pricings]

\* Car.query.get / ParkingSpace.query.get: the row with that primary key, or None.
QueryGet(table, id) ==
    IF id # None /\ id[1] \in DOMAIN table THEN Some(id[1]) ELSE None

\* Car.emission, a uselist=False relationship: the emission row whose car_id is
\* the car's id (the first one, were there several), or None.
CarEmission(db, car_id) ==
    LET rows == {i \in DOMAIN db.emissions : db.emissions[i].car_id = car_id}
    IN  IF rows = {} THEN None
        ELSE Some(db.emissions[CHOOSE i \in rows : \A j \in rows : i <= j])

\* ParkingSpace.pricing, a uselist=False relationship.
SpacePricing(db, space_id) ==
    LET rows == {i \in DOMAIN db.pricings : db.pricings[i].parking_space_id = space_id}
    IN  IF rows = {} THEN None
        ELSE Some(CHOOSE i \in rows : \A j \in rows : i <= j)

\* serialize with the status string of the listing, whatever the stored status.
serialize_always_available(db, space_id) ==
    IF SpacePricing(db, space_id) # None
    THEN [ok |-> FALSE]
    ELSE [ok |-> TRUE,
          value |-> [id |-> space_id,
                     location |-> db.spaces[space_id].location,
                     status |-> "available",
                     price |-> None]]

\* ParkingSpace.serialize.  Evaluating self.pricing.price raises when a Pricing
\* row exists, as Pricing has no price attribute: ok is FALSE then.
serialize(db, space_id) ==
    IF SpacePricing(db, space_id) # None
    THEN [ok |-> FALSE]
    ELSE [ok |-> TRUE,
          value |-> [id |-> space_id,
                     location |-> db.spaces[space_id].location,
                     status |-> IF db.spaces[space_id].status
                                THEN "available" ELSE "not available",
                     price |-> None]]

-----------------------------------------------------------------------------
(* Helper functions. *)

calculate_distance(coord1, coord2) == Abs(coord1 - coord2)

\* calculate_price with the discount radii inclusive (<= in place of <).
calculate_price_inclusive_radius(parking_space, car, emission) ==
    IF ~parking_space.status
    THEN None
    ELSE LET car_to_spot_distance ==
                 calculate_distance(car.current_location, parking_space.location)
             price1 == IF car_to_spot_distance <= CarRadiusKm
                       THEN base_price - CarDiscount ELSE base_price
             residence_to_spot_distance ==
                 calculate_distance(car.residence_location, parking_space.location)
             price2 == IF residence_to_spot_distance <= ResidenceRadiusKm
                       THEN price1 - ResidenceDiscount ELSE price1
         IN  Some(price2 + (emission.co2 + emission.nox) * EmissionFactor)

\* calculate_price without the availability check.
calculate_price_unchecked_status(parking_space, car, emission) ==
    LET car_to_spot_distance ==
            calculate_distance(car.current_location, parking_space.location)
        price1 == IF car_to_spot_distance < CarRadiusKm
                  THEN base_price - CarDiscount ELSE base_price
        residence_to_spot_distance ==
            calculate_distance(car.residence_location, parking_space.location)
        price2 == IF residence_to_spot_distance < ResidenceRadiusKm
                  THEN price1 - ResidenceDiscount ELSE price1
    IN  Some(price2 + (emission.co2 + emission.nox) * EmissionFactor)

\* calculate_price(parking_space, car); emission is car.emission, present.
calculate_price(parking_space, car, emission) ==
    IF ~parking_space.status
    THEN None
    ELSE LET car_to_spot_distance ==
                 calculate_distance(car.current_location, parking_space.location)
             price1 == IF car_to_spot_distance < CarRadiusKm
                       THEN base_price - CarDiscount ELSE base_price
             residence_to_spot_distance ==
                 calculate_distance(car.residence_location, parking_space.location)
             price2 == IF residence_to_spot_distance < ResidenceRadiusKm
                       THEN price1 - ResidenceDiscount ELSE price1
         IN  Some(price2 + (emission.co2 + emission.nox) * EmissionFactor)

-----------------------------------------------------------------------------
(* Responses. *)

Error(code, msg) == [code |-> code, body |-> [error |-> msg]]
\* An exception no handler catches: Flask answers 500; the session is dropped
\* with the request, so nothing uncommitted reaches the store.
ServerError(exc) == Error(500, exc)

-----------------------------------------------------------------------------
(* Route handlers.  Each takes the store and the request's inputs and gives *)
(* the store after the request and the response.                           *)

Result(db, response) == [db |-> db, resp |-> response]

\* ParkingSpace.query.all(): the scan without the status filter.
AllSpaces(db) == [i \in 1..Len(db.spaces) |-> i]

\* ParkingSpace.query.filter_by(status=True).all(): the ids, in id order.
AvailableSpaces(db) ==
    SelectSeq([i \in 1..Len(db.spaces) |-> i], LAMBDA i : db.spaces[i].status)

\* get_parking_spaces answering an unknown car with an empty listing.
get_parking_spaces_empty_for_unknown_car(db, car_id) ==
    LET car == QueryGet(db.cars, car_id)
        parking_spaces == AvailableSpaces(db)
    IN  IF car = None
        THEN Result(db, [code |-> 200, body |-> << >>])
        ELSE IF parking_spaces # << >> /\ CarEmission(db, car[1]) = None
        THEN Result(db, ServerError("AttributeError"))
        ELSE Result(db,
               [code |-> 200,
                body |-> [k \in 1..Len(parking_spaces) |->
                   LET space == parking_spaces[k]
                   IN  [id |-> space,
                        location |-> db.spaces[space].location,
                        status |-> "available",
                        price |-> calculate_price(db.spaces[space], db.cars[car[1]],
                                                  CarEmission(db, car[1])[1])]]])

\* GET /api/v1/parking-spaces?car_id=
get_parking_spaces(db, car_id) ==
    LET car == QueryGet(db.cars, car_id)
        parking_spaces == AvailableSpaces(db)
    IN  IF car = None
        THEN Result(db, Error(404, "Car not found"))
        ELSE IF parking_spaces # << >> /\ CarEmission(db, car[1]) = None
        THEN Result(db, ServerError("AttributeError"))
        ELSE Result(db,
               [code |-> 200,
                body |-> [k \in 1..Len(parking_spaces) |->
                   LET space == parking_spaces[k]
                   IN  [id |-> space,
                        location |-> db.spaces[space].location,
                        status |-> "available",
                        price |-> calculate_price(db.spaces[space], db.cars[car[1]],
                                                  CarEmission(db, car[1])[1])]]])

\* POST /api/v1/parking-spaces
add_parking_space(db, data) ==
    IF data.location = None
    THEN Result(db, ServerError("KeyError"))
    ELSE LET new_space == [location |-> data.location[1],
                           status |-> IF data.status = None THEN TRUE
                                      ELSE data.status[1]]
             committed == [db EXCEPT !.spaces = Append(@, new_space)]
             out == serialize(committed, Len(committed.spaces))
         IN  IF out.ok
             THEN Result(committed, [code |-> 201, body |-> out.value])
             ELSE Result(committed, ServerError("AttributeError"))

\* update_parking_space_status taking a missing status for false.
update_status_missing_is_false(db, space_id, data) ==
    LET parking_space == QueryGet(db.spaces, Some(space_id))
    IN  IF parking_space = None
        THEN Result(db, Error(404, "Parking space not found"))
        ELSE LET status == IF data.status = None THEN FALSE ELSE data.status[1]
                 committed == [db EXCEPT !.spaces[space_id].status = status]
                 out == serialize(committed, space_id)
             IN  IF out.ok
                 THEN Result(committed, [code |-> 200, body |-> out.value])
                 ELSE Result(committed, ServerError("AttributeError"))

\* update_parking_space_status checking the body before looking the space up.
update_status_body_checked_first(db, space_id, data) ==
    LET parking_space == QueryGet(db.spaces, Some(space_id))
    IN  IF data.status = None
        THEN Result(db, Error(400, "No status provided"))
        ELSE IF parking_space = None
        THEN Result(db, Error(404, "Parking space not found"))
        ELSE LET committed ==
                     [db EXCEPT !.spaces[space_id].status = data.status[1]]
                 out == serialize(committed, space_id)
             IN  IF out.ok
                 THEN Result(committed, [code |-> 200, body |-> out.value])
                 ELSE Result(committed, ServerError("AttributeError"))

\* update_parking_space_status flipping the stored status, in place of storing
\* the status of the body.
update_status_toggles(db, space_id, data) ==
    LET parking_space == QueryGet(db.spaces, Some(space_id))
    IN  IF parking_space = None
        THEN Result(db, Error(404, "Parking space not found"))
        ELSE IF data.status = None
        THEN Result(db, Error(400, "No status provided"))
        ELSE LET committed ==
                     [db EXCEPT !.spaces[space_id].status = ~@]
                 out == serialize(committed, space_id)
             IN  IF out.ok
                 THEN Result(committed, [code |-> 200, body |-> out.value])
                 ELSE Result(committed, ServerError("AttributeError"))

\* POST /api/v1/parking-spaces/<space_id>/status
update_parking_space_status(db, space_id, data) ==
    LET parking_space == QueryGet(db.spaces, Some(space_id))
    IN  IF parking_space = None
        THEN Result(db, Error(404, "Parking space not found"))
        ELSE IF data.status = None
        THEN Result(db, Error(400, "No status provided"))
        ELSE LET committed ==
                     [db EXCEPT !.spaces[space_id].status = data.status[1]]
                 out == serialize(committed, space_id)
             IN  IF out.ok
                 THEN Result(committed, [code |-> 200, body |-> out.value])
                 ELSE Result(committed, ServerError("AttributeError"))

\* GET /api/v1/cars
get_cars(db) ==
    IF \E i \in DOMAIN db.cars : CarEmission(db, i) = None
    THEN Result(db, ServerError("AttributeError"))
    ELSE Result(db,
           [code |-> 200,
            body |-> [i \in 1..Len(db.cars) |->
                        [id |-> i,
                         co2_emission |-> CarEmission(db, i)[1].co2,
                         nox_emission |-> CarEmission(db, i)[1].nox,
                         residence_location |-> db.cars[i].residence_location,
                         current_location |-> db.cars[i].current_location]]])

\* add_car storing the two emission values in each other's column.
add_car_swapped_emission(db, data) ==
    IF \/ data.residence_location = None
       \/ data.current_location = None
       \/ data.emission = None
       \/ data.emission[1].co2 = None
       \/ data.emission[1].nox = None
    THEN Result(db, ServerError("KeyError"))
    ELSE LET new_car == [residence_location |-> data.residence_location[1],
                         current_location |-> data.current_location[1]]
             new_id == Len(db.cars) + 1
             new_emission == [co2 |-> data.emission[1].nox[1],
                              nox |-> data.emission[1].co2[1],
                              car_id |-> new_id]
         IN  Result([db EXCEPT !.cars = Append(@, new_car),
                               !.emissions = Append(@, new_emission)],
                    [code |-> 201, body |-> [id |-> new_id]])

\* POST /api/v1/cars
add_car(db, data) ==
    IF \/ data.residence_location = None
       \/ data.current_location = None
       \/ data.emission = None
       \/ data.emission[1].co2 = None
       \/ data.emission[1].nox = None
    THEN Result(db, ServerError("KeyError"))
    ELSE LET new_car == [residence_location |-> data.residence_location[1],
                         current_location |-> data.current_location[1]]
             new_id == Len(db.cars) + 1
             new_emission == [co2 |-> data.emission[1].co2[1],
                              nox |-> data.emission[1].nox[1],
                              car_id |-> new_id]
         IN  Result([db EXCEPT !.cars = Append(@, new_car),
                               !.emissions = Append(@, new_emission)],
                    [code |-> 201, body |-> [id |-> new_id]])

-----------------------------------------------------------------------------
(* Request bodies. *)

SpaceBodies == [location : {Some(l) : l \in SpaceLocations}, status : Opt(BOOLEAN)]
BadSpaceBodies == [location : {None}, status : Opt(BOOLEAN)]

StatusBodies == [status : Opt(BOOLEAN)]

EmissionBody(co2, nox) == Some([co2 |-> Some(co2), nox |-> Some(nox)])
CarBody(residence, current, co2, nox) ==
    [residence_location |-> Some(residence), current_location |-> Some(current),
     emission |-> EmissionBody(co2, nox)]
\* The cars that requests create: one within both radii of the space at 1 and
\* outside both of the space at 3; one exactly at a radius of each space, with
\* a negative emission value.
CarBodies == {CarBody(0, 1, 3, 2), CarBody(1, 3, -90, 2)}
\* One well-formed body with one required key left out.
BadCarBodies ==
    { [CarBody(0, 1, 3, 2) EXCEPT !.residence_location = None],
      [CarBody(0, 1, 3, 2) EXCEPT !.current_location = None],
      [CarBody(0, 1, 3, 2) EXCEPT !.emission = None],
      [CarBody(0, 1, 3, 2) EXCEPT !.emission = Some([co2 |-> None, nox |-> Some(2)])],
      [CarBody(0, 1, 3, 2) EXCEPT !.emission = Some([co2 |-> Some(3), nox |-> None])] }

Request(op, car_id, space_id, data) ==
    [op |-> op, car_id |-> car_id, space_id |-> space_id, data |-> data]

NoData == [empty |-> TRUE]

-----------------------------------------------------------------------------
(* Actions: one per route. *)

Handle(r, out) ==
    /\ req' = r
    /\ repeated' = (r.op = req.op /\ r = req)
    /\ resp' = out.resp
    /\ cars' = out.db.cars
    /\ emissions' = out.db.emissions
    /\ spaces' = out.db.spaces
    /\ pricings' = out.db.pricings
    /\ car_pricings' = out.db.car_pricings

GetParkingSpaces ==
    \E car_id \in Opt(1..(MaxCars + 1)) :
        Handle(Request("get_parking_spaces", car_id, None, NoData),
               get_parking_spaces(DB, car_id))

AddParkingSpace ==
    \E data \in SpaceBodies \cup BadSpaceBodies :
        /\ data.location # None => Len(spaces) < MaxSpaces
        /\ Handle(Request("add_parking_space", None, None, data),
                  add_parking_space(DB, data))

UpdateParkingSpaceStatus ==
    \E space_id \in 0..(MaxSpaces + 1), data \in StatusBodies :
        Handle(Request("update_parking_space_status", None, Some(space_id), data),
               update_parking_space_status(DB, space_id, data))

GetCars ==
    Handle(Request("get_cars", None, None, NoData), get_cars(DB))

AddCar ==
    \E data \in CarBodies \cup BadCarBodies :
        /\ data \in CarBodies => Len(cars) < MaxCars
        /\ Handle(Request("add_car", None, None, data), add_car(DB, data))

Init ==
    /\ cars = << >>
    /\ emissions = << >>
    /\ spaces = << >>
    /\ pricings = << >>
    /\ car_pricings = << >>
    /\ req = Request("none", None, None, NoData)
    /\ resp = [code |-> 0, body |-> NoData]
    /\ repeated = FALSE

Next ==
    \/ GetParkingSpaces
    \/ AddParkingSpace
    \/ UpdateParkingSpaceStatus
    \/ GetCars
    \/ AddCar

Spec == Init /\ [][Next]_vars

-----------------------------------------------------------------------------
(* The pricing function on its own: any one space, any one car with its    *)
(* emission record, and a call of calculate_price on them.                 *)

PriceInit ==
    /\ cars \in {<<c>> : c \in [residence_location : Locations,
                                current_location : Locations]}
    /\ emissions \in {<<e>> : e \in [co2 : EmissionValues, nox : EmissionValues,
                                     car_id : {1}]}
    /\ spaces \in {<<s>> : s \in [location : Locations, status : BOOLEAN]}
    /\ pricings = << >>
    /\ car_pricings = << >>
    /\ req = Request("none", None, None, NoData)
    /\ resp = [code |-> 0, body |-> NoData]
    /\ repeated = FALSE

CalculatePrice ==
    \E s \in DOMAIN spaces, c \in DOMAIN cars :
        /\ req' = Request("calculate_price", Some(c), Some(s), NoData)
        /\ repeated' = (req.op = "calculate_price")
        /\ resp' = [code |-> 0,
                    body |-> [price |-> calculate_price(spaces[s], cars[c],
                                                        CarEmission(DB, c)[1])]]
        /\ UNCHANGED <<cars, emissions, spaces, pricings, car_pricings>>

PriceNext == CalculatePrice

PriceSpec == PriceInit /\ [][PriceNext]_vars

-----------------------------------------------------------------------------
(* Properties. *)

store == <<cars, emissions, spaces, pricings, car_pricings>>

Priced == req.op = "calculate_price"
PricedSpace == spaces[req.space_id[1]]
PricedCar == cars[req.car_id[1]]
PricedEmission == emissions[req.car_id[1]]
CarToSpotKm == Abs(PricedCar.current_location - PricedSpace.location)
ResidenceToSpotKm == Abs(PricedCar.residence_location - PricedSpace.location)

\* C1: for a space whose status is true, calculate_price returns 10.0, minus 2.0
\* if the car's current location is strictly less than 2.0 km from the space,
\* minus 2.0 if the car's residence is strictly less than 2.0 km from the space,
\* plus 0.1 * (co2 + nox); the discounts add up and the result has no floor
\* (in tenths: 100, 20, 20 and co2 + nox).
C1_PriceFormula ==
    (Priced /\ PricedSpace.status) =>
        resp.body.price =
            Some(100 - (IF CarToSpotKm < 2 THEN 20 ELSE 0)
                     - (IF ResidenceToSpotKm < 2 THEN 20 ELSE 0)
                     + (PricedEmission.co2 + PricedEmission.nox))

\* A car exactly 2 km from an available space (no discount), whose residence
\* is within 2 km (discount), quoted a negative price.
C1_Witness ==
    /\ Priced
    /\ PricedSpace.status
    /\ CarToSpotKm = 2
    /\ ResidenceToSpotKm < 2
    /\ resp.body.price # None
    /\ resp.body.price[1] < 0

\* C2: for a space whose status is false, calculate_price returns None, whatever
\* the car's distances to the space and its emission values.
C2_UnavailableIsNone ==
    (Priced /\ ~PricedSpace.status) => resp.body.price = None

\* An unavailable space priced for a car that is within both discount radii.
C2_Witness ==
    /\ Priced
    /\ ~PricedSpace.status
    /\ CarToSpotKm < 2
    /\ ResidenceToSpotKm < 2
    /\ PricedEmission.co2 > 0
    /\ resp.body.price = None

Listed == req.op = "get_parking_spaces" /\ resp.code = 200
ListedIds == {resp.body[k].id : k \in DOMAIN resp.body}

\* C3: a successful listing holds exactly the spaces whose stored status is true,
\* each once, and no space whose stored status is false.
C3_ListingIsAvailableSpaces ==
    Listed =>
        /\ ListedIds = {i \in DOMAIN spaces : spaces[i].status}
        /\ Cardinality(ListedIds) = Len(resp.body)
        /\ \A k \in DOMAIN resp.body : resp.body[k].status = "available"

\* A listing made while one space is available and another is not.
C3_Witness ==
    /\ Listed
    /\ \E i \in DOMAIN spaces : ~spaces[i].status
    /\ \E i \in DOMAIN spaces : spaces[i].status
    /\ Len(resp.body) = 1

EmissionsOfCar(i) == {j \in DOMAIN emissions : emissions[j].car_id = i}
CarAdded == req.op = "add_car" /\ resp.code = 201

C4_Linked ==
    /\ \A i \in DOMAIN cars : Cardinality(EmissionsOfCar(i)) = 1
    /\ \A j \in DOMAIN emissions : emissions[j].car_id \in DOMAIN cars
    /\ CarAdded =>
          /\ resp.body.id = Len(cars)
          /\ \A j \in EmissionsOfCar(resp.body.id) :
                /\ emissions[j].co2 = req.data.emission[1].co2[1]
                /\ emissions[j].nox = req.data.emission[1].nox[1]
    /\ req.op = "get_cars" =>
          /\ resp.code = 200
          /\ Len(resp.body) = Len(cars)
          /\ \A i \in DOMAIN cars :
                /\ resp.body[i].id = i
                /\ \A j \in EmissionsOfCar(i) :
                      /\ resp.body[i].co2_emission = emissions[j].co2
                      /\ resp.body[i].nox_emission = emissions[j].nox

C4_Step ==
    IF req'.op = "add_car" /\ resp'.code = 201
    THEN /\ Len(cars') = Len(cars) + 1
         /\ Len(emissions') = Len(emissions) + 1
         /\ SubSeq(cars', 1, Len(cars)) = cars
         /\ SubSeq(emissions', 1, Len(emissions)) = emissions
    ELSE cars' = cars /\ emissions' = emissions

\* C4: every stored car has exactly one emission record linked to it, holding the
\* co2 and nox of the request that created the car; GET /cars returns those
\* values for each car; a successful POST /cars adds exactly one car and one
\* emission, and no other request changes either table.
C4_OneEmissionPerCar == [] C4_Linked /\ [][C4_Step]_vars

\* GET /cars answered with the co2 and nox, different from each other, that the
\* car was created with.
C4_Witness ==
    /\ req.op = "get_cars"
    /\ resp.code = 200
    /\ Len(cars) >= 1
    /\ resp.body[1].co2_emission = 3
    /\ resp.body[1].nox_emission = 2

IsUpdate(r) == r.op = "update_parking_space_status"

\* C5: a status update of an existing space whose body has no status key is
\* answered 400 "No status provided" and changes nothing stored.
C5_MissingStatusIs400 ==
    [][(/\ IsUpdate(req')
        /\ req'.space_id[1] \in DOMAIN spaces
        /\ req'.data.status = None)
       => (/\ resp' = [code |-> 400, body |-> [error |-> "No status provided"]]
           /\ store' = store)]_vars

\* Such a request, answered 400, on an existing space.
C5_Witness ==
    /\ IsUpdate(req)
    /\ req.space_id[1] \in DOMAIN spaces
    /\ req.data.status = None
    /\ resp.code = 400

\* C6: a status update of a space id that is not in the store is answered 404
\* "Parking space not found", with or without a status in the body, and changes
\* nothing stored.
C6_UnknownSpaceIs404 ==
    [][(IsUpdate(req') /\ req'.space_id[1] \notin DOMAIN spaces)
       => (/\ resp' = [code |-> 404, body |-> [error |-> "Parking space not found"]]
           /\ store' = store)]_vars

\* An update of an unknown space with no status in its body, answered 404,
\* while other spaces exist.
C6_Witness ==
    /\ IsUpdate(req)
    /\ req.space_id[1] \notin DOMAIN spaces
    /\ req.data.status = None
    /\ spaces # << >>
    /\ resp.code = 404

MissingField(r) ==
    \/ r.op = "add_parking_space" /\ r.data.location = None
    \/ /\ r.op = "add_car"
       /\ \/ r.data.residence_location = None
          \/ r.data.current_location = None
          \/ r.data.emission = None
          \/ r.data.emission[1].co2 = None
          \/ r.data.emission[1].nox = None

\* C7: a create request whose body lacks a required field is answered 400 and
\* adds nothing to the store.
C7_MissingFieldIs400 ==
    [][MissingField(req') => (resp'.code = 400 /\ store' = store)]_vars

\* The part of C7 that the handlers keep: such a request adds nothing.
C7_MissingFieldAddsNothing ==
    [][MissingField(req') => store' = store]_vars

ListingFor(car_id) ==
    LET available == {i \in DOMAIN spaces : spaces[i].status}
    IN  /\ resp'.code = 200
        /\ Len(resp'.body) = Cardinality(available)
        /\ \A i \in available :
              \E k \in DOMAIN resp'.body :
                 /\ resp'.body[k].id = i
                 /\ resp'.body[k].location = spaces[i].location
                 /\ resp'.body[k].price =
                        calculate_price(spaces[i], cars[car_id],
                                        CarEmission(DB, car_id)[1])
                 /\ resp'.body[k].price # None

\* C8: a listing for a car_id that matches no stored car, an absent car_id
\* included, is answered 404 "Car not found"; a listing for a stored car is
\* answered 200 with one entry per available space, priced by calculate_price
\* for that car; neither changes anything stored.
C8_ListingByCar ==
    [][req'.op = "get_parking_spaces" =>
         /\ store' = store
         /\ IF req'.car_id = None \/ req'.car_id[1] \notin DOMAIN cars
            THEN resp' = [code |-> 404, body |-> [error |-> "Car not found"]]
            ELSE ListingFor(req'.car_id[1])]_vars

\* A listing with no car_id, answered 404, while a car and an available space
\* are stored.
C8_Witness ==
    /\ req.op = "get_parking_spaces"
    /\ req.car_id = None
    /\ cars # << >>
    /\ \E i \in DOMAIN spaces : spaces[i].status
    /\ resp.code = 404

\* C9: applying a successful status update a second time in a row leaves the
\* store and the response as the first left them; a successful update sets the
\* status of its space to the status of the body and changes nothing else.
C9_UpdateIdempotent ==
    [][(IsUpdate(req') /\ resp'.code = 200) =>
         /\ (IsUpdate(req) /\ req' = req /\ resp.code = 200)
                => (store' = store /\ resp' = resp)
         /\ Len(spaces') = Len(spaces)
         /\ \A i \in DOMAIN spaces :
               /\ spaces'[i].location = spaces[i].location
               /\ i # req'.space_id[1] => spaces'[i] = spaces[i]
         /\ spaces'[req'.space_id[1]].status = req'.data.status[1]
         /\ <<cars, emissions, pricings, car_pricings>>' =
                <<cars, emissions, pricings, car_pricings>>]_vars

\* The same update to "not available" handled twice in a row, both answered 200.
C9_Witness ==
    /\ IsUpdate(req)
    /\ repeated
    /\ resp.code = 200
    /\ req.data.status = Some(FALSE)

Serialized ==
    /\ req.op \in {"add_parking_space", "update_parking_space_status"}
    /\ resp.code \in {200, 201}

\* C10: no Pricing or CarPricing record is ever stored, so no space has a
\* Pricing; a serialized space has a null price, and the status "available"
\* exactly when its stored status is true, "not available" otherwise.
C10_NoPricing ==
    /\ pricings = << >>
    /\ car_pricings = << >>
    /\ \A i \in DOMAIN spaces : SpacePricing(DB, i) = None
    /\ Serialized =>
          /\ resp.body.price = None
          /\ resp.body.status = IF spaces[resp.body.id].status
                                THEN "available" ELSE "not available"

\* A space made unavailable by an update and serialized in the answer.
C10_Witness ==
    /\ IsUpdate(req)
    /\ resp.code = 200
    /\ resp.body.status = "not available"
    /\ resp.body.price = None
    /\ ~spaces[resp.body.id].status

====
